---- MODULE Spec2Model ----
(***************************************************************************)
(* StableVec<T> (lib_tests/src/stable_vec.rs): a vector of optional slots  *)
(* with a free list of vacant keys, and the Transaction that records an    *)
(* undo log over it.  Keys are 0-based as in the source; slot k of the     *)
(* source is element k+1 of the TLA+ sequence `slots`.                     *)
(* Option<T> is modelled as a sequence: None is <<>>, Some(v) is <<v>>.    *)
(***************************************************************************)
EXTENDS Integers, Sequences, FiniteSets, TLC

\* ---------------------------------------------------------------- bounds
MaxSize == 2
NumValues == 2
MaxOps == 2
MaxEqLen == 3

Values == 1..NumValues
Keys == 0..MaxSize

None == <<>>
Some(v) == <<v>>

VARIABLES
  slots,      \* StableVec.slots: sequence of Option<T>
  free_list,  \* StableVec.free_list: stack of vacant keys
  mode,       \* "none", or the open Transaction: "manual" (transaction()) / "with"
  log,        \* the Transaction's undo log (kept after it ends, as history)
  snap,       \* history: the arena when the last transaction was opened
  last,       \* history: the last call: [op, key, val, ret, panic]
  pre,        \* history: the arena immediately before the last call
  hist,       \* history: the current run of removes then inserts, as [op, key]
  prior,      \* history: the call before the last one and the arena before it,
              \* kept when that call vacated a slot or filled a vacant one
  fcalls,     \* with_transaction: invocations of f in the current/last call
  fresult,    \* with_transaction: what f returned ("none" while it has not)
  wresult     \* with_transaction: what with_transaction returned

vars == <<slots, free_list, mode, log, snap, last, pre, hist, prior, fcalls, fresult, wresult>>

\* ------------------------------------------------------ sequence helpers
Front(s) == SubSeq(s, 1, Len(s) - 1)

RemoveAtPos(s, pos) == SubSeq(s, 1, pos - 1) \o SubSeq(s, pos + 1, Len(s))

\* Iterator::position: index of the first element equal to k, 0 when absent
Position(s, k) ==
  IF \E i \in 1..Len(s) : s[i] = k
  THEN CHOOSE i \in 1..Len(s) : s[i] = k /\ \A j \in 1..(i - 1) : s[j] # k
  ELSE 0

SeqToSet(s) == {s[i] : i \in 1..Len(s)}

\* ----------------------------------------------------- the arena (pure)
\* An arena value is [slots, free_list]; an operation yields the arena after
\* it, the key and the Option it returns, and whether it panicked.
Arena(s, f) == [slots |-> s, free_list |-> f]

Res(s, f, key, ret, panic) ==
  [slots |-> s, free_list |-> f, key |-> key, ret |-> ret, panic |-> panic]

new == Arena(<<>>, <<>>)

\* mutant of insert: reads the top of the free list without popping it
insert_no_pop(a, v) ==
  IF a.free_list # <<>>
  THEN LET key == a.free_list[Len(a.free_list)]
       IN IF key < Len(a.slots)
          THEN Res([a.slots EXCEPT ![key + 1] = Some(v)], a.free_list, key, None, FALSE)
          ELSE Res(a.slots, a.free_list, key, None, TRUE)
  ELSE Res(Append(a.slots, Some(v)), a.free_list, Len(a.slots), None, FALSE)

\* mutant of insert: takes the oldest key of the free list, not the newest
insert_fifo(a, v) ==
  IF a.free_list # <<>>
  THEN LET key == a.free_list[1]
           popped == SubSeq(a.free_list, 2, Len(a.free_list))
       IN IF key < Len(a.slots)
          THEN Res([a.slots EXCEPT ![key + 1] = Some(v)], popped, key, None, FALSE)
          ELSE Res(a.slots, popped, key, None, TRUE)
  ELSE Res(Append(a.slots, Some(v)), a.free_list, Len(a.slots), None, FALSE)

insert(a, v) ==
  IF a.free_list # <<>>
  THEN LET key == a.free_list[Len(a.free_list)]
           popped == Front(a.free_list)
       IN IF key < Len(a.slots)
          THEN Res([a.slots EXCEPT ![key + 1] = Some(v)], popped, key, None, FALSE)
          ELSE Res(a.slots, popped, key, None, TRUE)
  ELSE Res(Append(a.slots, Some(v)), a.free_list, Len(a.slots), None, FALSE)

\* mutant of insert_at: leaves k in the free list
insert_at_keep_free(a, k, v) ==
  IF k < Len(a.slots)
  THEN Res([a.slots EXCEPT ![k + 1] = Some(v)], a.free_list, k, a.slots[k + 1], FALSE)
  ELSE Res(a.slots, a.free_list, k, None, TRUE)

\* mutant of insert_at: grows the vector up to k instead of panicking
insert_at_grow(a, k, v) ==
  LET pos == Position(a.free_list, k)
      fl == IF pos # 0 THEN RemoveAtPos(a.free_list, pos) ELSE a.free_list
      grown == [i \in 1..(k + 1) |-> IF i <= Len(a.slots) THEN a.slots[i] ELSE None]
  IN IF k < Len(a.slots)
     THEN Res([a.slots EXCEPT ![k + 1] = Some(v)], fl, k, a.slots[k + 1], FALSE)
     ELSE Res([grown EXCEPT ![k + 1] = Some(v)], fl, k, None, FALSE)

\* mutant of insert_at: overwrites the slot and forgets its previous content
insert_at_no_prev(a, k, v) ==
  LET pos == Position(a.free_list, k)
      fl == IF pos # 0 THEN RemoveAtPos(a.free_list, pos) ELSE a.free_list
  IN IF k < Len(a.slots)
     THEN Res([a.slots EXCEPT ![k + 1] = Some(v)], fl, k, None, FALSE)
     ELSE Res(a.slots, fl, k, None, TRUE)

insert_at(a, k, v) ==
  LET pos == Position(a.free_list, k)
      fl == IF pos # 0 THEN RemoveAtPos(a.free_list, pos) ELSE a.free_list
  IN IF k < Len(a.slots)
     THEN Res([a.slots EXCEPT ![k + 1] = Some(v)], fl, k, a.slots[k + 1], FALSE)
     ELSE Res(a.slots, fl, k, None, TRUE)

\* mutant of push_back: takes a key from the free list when there is one
push_back_reuse(a, v) == insert(a, v)

push_back(a, v) ==
  Res(Append(a.slots, Some(v)), a.free_list, Len(a.slots), None, FALSE)

\* mutant of remove: pushes k without testing that the slot is occupied
remove_always_push(a, k) ==
  IF k < Len(a.slots)
  THEN Res([a.slots EXCEPT ![k + 1] = None], Append(a.free_list, k), k, a.slots[k + 1], FALSE)
  ELSE Res(a.slots, a.free_list, k, None, TRUE)

\* mutant of remove: returns the value but leaves it in the slot
remove_no_take(a, k) ==
  IF k < Len(a.slots)
  THEN LET fl == IF a.slots[k + 1] # None THEN Append(a.free_list, k) ELSE a.free_list
       IN Res(a.slots, fl, k, a.slots[k + 1], FALSE)
  ELSE Res(a.slots, a.free_list, k, None, TRUE)

\* mutant of remove: vacates the slot but never pushes k on the free list
remove_no_push(a, k) ==
  IF k < Len(a.slots)
  THEN Res([a.slots EXCEPT ![k + 1] = None], a.free_list, k, a.slots[k + 1], FALSE)
  ELSE Res(a.slots, a.free_list, k, None, TRUE)

\* mutant of remove: removing the last slot shortens the vector
remove_truncate(a, k) ==
  IF k < Len(a.slots)
  THEN IF k = Len(a.slots) - 1
       THEN Res(Front(a.slots), a.free_list, k, a.slots[k + 1], FALSE)
       ELSE LET fl == IF a.slots[k + 1] # None THEN Append(a.free_list, k) ELSE a.free_list
            IN Res([a.slots EXCEPT ![k + 1] = None], fl, k, a.slots[k + 1], FALSE)
  ELSE Res(a.slots, a.free_list, k, None, TRUE)

remove(a, k) ==
  IF k < Len(a.slots)
  THEN LET fl == IF a.slots[k + 1] # None THEN Append(a.free_list, k) ELSE a.free_list
       IN Res([a.slots EXCEPT ![k + 1] = None], fl, k, a.slots[k + 1], FALSE)
  ELSE Res(a.slots, a.free_list, k, None, TRUE)

get(a, k) == IF k < Len(a.slots) THEN a.slots[k + 1] ELSE None

get_mut(a, k) == IF k < Len(a.slots) THEN a.slots[k + 1] ELSE None

\* mutant of index: a vacant slot is handed back as none instead of panicking
index_no_unwrap(a, k) ==
  IF k < Len(a.slots)
  THEN Res(a.slots, a.free_list, k, a.slots[k + 1], FALSE)
  ELSE Res(a.slots, a.free_list, k, None, TRUE)

\* Index::index: panics when k is out of range (slots[k]) or the slot is vacant
index(a, k) ==
  IF k < Len(a.slots) /\ a.slots[k + 1] # None
  THEN Res(a.slots, a.free_list, k, a.slots[k + 1], FALSE)
  ELSE Res(a.slots, a.free_list, k, None, TRUE)

len(a) == Len(a.slots) - Len(a.free_list)

contains_key(a, key) == key < Len(a.slots) /\ a.slots[key + 1] # None

RECURSIVE keysFrom(_, _)
keysFrom(a, key) ==
  IF key >= Len(a.slots) THEN <<>>
  ELSE (IF a.slots[key + 1] # None THEN <<key>> ELSE <<>>) \o keysFrom(a, key + 1)

\* mutant of keys: every key in range, the occupancy filter dropped
keys_all(a) == [i \in 1..Len(a.slots) |-> i - 1]

keys(a) == keysFrom(a, 0)

RECURSIVE valuesFrom(_, _)
valuesFrom(a, i) ==
  IF i > Len(a.slots) THEN <<>>
  ELSE (IF a.slots[i] # None THEN <<a.slots[i][1]>> ELSE <<>>) \o valuesFrom(a, i + 1)

values(a) == valuesFrom(a, 1)

Min(x, y) == IF x <= y THEN x ELSE y

\* Iterator::zip stops at the shorter of the two
Zip(s, t) == [i \in 1..Min(Len(s), Len(t)) |-> <<s[i], t[i]>>]

iter(a) == Zip(keys(a), values(a))

\* mutant of eq: arenas of different sizes are unequal
eq_strict(a, b) ==
  /\ Len(a.slots) = Len(b.slots)
  /\ \A i \in 1..Len(a.slots) : a.slots[i] = b.slots[i]

eq(a, b) == \A i \in 1..Min(Len(a.slots), Len(b.slots)) : a.slots[i] = b.slots[i]

\* mutant of drain_all: drains the slots but does not clear the free list
drain_all_keep_free(a) == Res(<<>>, a.free_list, -1, iter(a), FALSE)

\* Iterator::enumerate: each element paired with its 0-based position
Enumerate(s) == [i \in 1..Len(s) |-> <<i - 1, s[i]>>]

\* filter_map(|(key, slot)| slot.map(|value| (key, value)))
Occupants(e) ==
  LET some == SelectSeq(e, LAMBDA p : p[2] # None)
  IN [i \in 1..Len(some) |-> <<some[i][1], some[i][2][1]>>]

\* mutant of drain_all: drops the vacant slots before enumerating
drain_all_enumerate_late(a) ==
  Res(<<>>, <<>>, -1, Occupants(Enumerate(SelectSeq(a.slots, LAMBDA x : x # None))), FALSE)

\* the free list is cleared, every slot is drained, the occupied ones are yielded
drain_all(a) == Res(<<>>, <<>>, -1, Occupants(Enumerate(a.slots)), FALSE)

\* ------------------------------------------------- Transaction (undo log)
\* An inversion record: kind "remove" (undo of insert / push_back),
\* "restore" (undo of insert_at, val = the previous content) or
\* "reinsert" (undo of remove, val = the removed content).
Undo(kind, key, val) == [kind |-> kind, key |-> key, val |-> val]

Keep(a) == Res(a.slots, a.free_list, -1, None, FALSE)

ApplyUndo(a, u) ==
  CASE u.kind = "remove" -> remove(a, u.key)
    [] u.kind = "restore" ->
         IF u.val # None THEN insert_at(a, u.key, u.val[1]) ELSE remove(a, u.key)
    [] u.kind = "reinsert" ->
         IF u.val # None THEN insert_at(a, u.key, u.val[1]) ELSE Keep(a)

\* the undo records l[1..n] replayed in reverse order of recording
RECURSIVE Replay(_, _, _)
Replay(a, l, n) ==
  IF n = 0 THEN Keep(a)
  ELSE LET r == ApplyUndo(a, l[n])
       IN IF r.panic THEN r ELSE Replay(Arena(r.slots, r.free_list), l, n - 1)

rollback(a, l) == Replay(a, l, Len(l))

\* mutant of is_err: the test inverted
is_ok(result) == result = "Ok"

\* Result::is_err, as with_transaction tests it
is_err(result) == result = "Err"

\* ------------------------------------------------------------ the state
Self == Arena(slots, free_list)

Call(op, r, v) == [op |-> op, key |-> r.key, val |-> v, ret |-> r.ret, panic |-> r.panic]

\* hist follows the calls "remove, remove, insert, insert" with nothing in
\* between: up to two removes that returned a value, then up to two inserts.
IsRemoved(e) == e.op = "remove"

Removes(h) == IF h # <<>> /\ \A i \in 1..Len(h) : IsRemoved(h[i]) THEN Len(h) ELSE 0

Track(h, op, r) ==
  LET e == [op |-> op, key |-> r.key]
  IN CASE op = "remove" /\ r.ret # None /\ ~r.panic ->
            IF Removes(h) = 0 THEN <<e>> ELSE <<h[Len(h)], e>>
       [] op = "insert" /\ ~r.panic ->
            IF Len(h) \in {2, 3} /\ IsRemoved(h[2]) THEN Append(h, e) ELSE <<>>
       [] OTHER -> <<>>

\* the arena becomes r, and the history variables record the call
Record(op, r, v) ==
  /\ slots' = r.slots
  /\ free_list' = r.free_list
  /\ pre' = Self
  /\ last' = Call(op, r, v)
  /\ hist' = Track(hist, op, r)

NoPrior == [call |-> Call("new", Keep(new), None), arena |-> new]

\* a remove that returned a value, or an insert_at that found the slot vacant
Toggled(c) ==
  /\ ~c.panic
  /\ (c.op = "remove" /\ c.ret # None) \/ (c.op = "insert_at" /\ c.ret = None)

Apply(op, r, v) ==
  /\ Record(op, r, v)
  /\ prior' = IF Toggled(last) THEN [call |-> last, arena |-> pre] ELSE NoPrior

\* a call on the arena itself: no transaction exists, its history is dropped
NoTrx ==
  /\ mode = "none"
  /\ mode' = "none"
  /\ log' = <<>>
  /\ snap' = new
  /\ fcalls' = 0
  /\ fresult' = "none"
  /\ wresult' = "none"

Init ==
  /\ slots = <<>>
  /\ free_list = <<>>
  /\ mode = "none"
  /\ log = <<>>
  /\ snap = new
  /\ last = Call("new", Keep(new), None)
  /\ pre = new
  /\ hist = <<>>
  /\ prior = NoPrior
  /\ fcalls = 0
  /\ fresult = "none"
  /\ wresult = "none"

\* ------------------------------------------- calls on the arena directly
CanAppend == Len(slots) < MaxSize

Insert(v) ==
  /\ NoTrx
  /\ free_list # <<>> \/ CanAppend
  /\ Apply("insert", insert(Self, v), Some(v))

InsertAt(k, v) ==
  /\ NoTrx
  /\ Apply("insert_at", insert_at(Self, k, v), Some(v))

PushBack(v) ==
  /\ NoTrx
  /\ CanAppend
  /\ Apply("push_back", push_back(Self, v), Some(v))

Remove(k) ==
  /\ NoTrx
  /\ Apply("remove", remove(Self, k), None)

DrainAll ==
  /\ NoTrx
  /\ Apply("drain_all", drain_all(Self), None)

\* a read: the arena is left as it is, r is what the read returns
Read(op, k, r) == Apply(op, Res(slots, free_list, k, r, FALSE), None)

Get(k) ==
  /\ NoTrx
  /\ Read("get", k, get(Self, k))

GetMut(k) ==
  /\ NoTrx
  /\ Read("get_mut", k, get_mut(Self, k))

ContainsKey(k) ==
  /\ NoTrx
  /\ Read("contains_key", k, <<contains_key(Self, k)>>)

Index(k) ==
  /\ NoTrx
  /\ Apply("index", index(Self, k), None)

\* ------------------------------------------------ calls in a transaction
\* A call that panics unwinds out of the transaction, which is dropped.
Logged(r, u) ==
  /\ mode' = IF r.panic THEN "none" ELSE mode
  /\ log' = IF r.panic THEN log ELSE Append(log, u)
  /\ UNCHANGED <<snap, fcalls, fresult, wresult>>

Opened(m) ==
  /\ mode = "none"
  /\ mode' = m
  /\ log' = <<>>
  /\ snap' = Self
  /\ Record(m, Keep(Self), None)
  /\ prior' = NoPrior

Transaction ==
  /\ Opened("manual")
  /\ fcalls' = 0
  /\ fresult' = "none"
  /\ wresult' = "none"

InTrx == mode # "none" /\ Len(log) < MaxOps

TrxInsert(v) ==
  /\ InTrx
  /\ free_list # <<>> \/ CanAppend
  /\ LET r == insert(Self, v)
     IN Apply("insert", r, Some(v)) /\ Logged(r, Undo("remove", r.key, None))

TrxInsertAt(k, v) ==
  /\ InTrx
  /\ LET r == insert_at(Self, k, v)
     IN Apply("insert_at", r, Some(v)) /\ Logged(r, Undo("restore", k, r.ret))

TrxRemove(k) ==
  /\ InTrx
  /\ LET r == remove(Self, k)
     IN Apply("remove", r, None) /\ Logged(r, Undo("reinsert", k, r.ret))

TrxPushBack(v) ==
  /\ InTrx
  /\ CanAppend
  /\ LET r == push_back(Self, v)
     IN Apply("push_back", r, Some(v)) /\ Logged(r, Undo("remove", r.key, None))

Rollback ==
  /\ mode = "manual"
  /\ Apply("rollback", rollback(Self, log), None)
  /\ mode' = "none"
  /\ UNCHANGED <<log, snap, fcalls, fresult, wresult>>

\* the transaction is dropped without rollback: implicit commit
Commit ==
  /\ mode = "manual"
  /\ Apply("commit", Keep(Self), None)
  /\ mode' = "none"
  /\ UNCHANGED <<log, snap, fcalls, fresult, wresult>>

\* with_transaction up to the point where f has been entered
WithBegin ==
  /\ Opened("with")
  /\ fcalls' = 1
  /\ fresult' = "none"
  /\ wresult' = "none"

\* f returns result; with_transaction rolls back if it is an error and returns it
WithEnd(result) ==
  /\ mode = "with"
  /\ fresult' = result
  /\ Apply("with_transaction",
           IF is_err(result) THEN rollback(Self, log) ELSE Keep(Self), None)
  /\ wresult' = result
  /\ mode' = "none"
  /\ UNCHANGED <<log, snap, fcalls>>

Next ==
  \/ \E v \in Values : Insert(v)
  \/ \E k \in Keys, v \in Values : InsertAt(k, v)
  \/ \E v \in Values : PushBack(v)
  \/ \E k \in Keys : Remove(k)
  \/ DrainAll
  \/ Transaction
  \/ \E v \in Values : TrxInsert(v)
  \/ \E k \in Keys, v \in Values : TrxInsertAt(k, v)
  \/ \E k \in Keys : TrxRemove(k)
  \/ \E v \in Values : TrxPushBack(v)
  \/ Rollback
  \/ Commit
  \/ WithBegin
  \/ \E result \in {"Ok", "Err"} : WithEnd(result)

Spec == Init /\ [][Next]_vars

\* ------------------------------------------- equality of two arenas
\* A second specification for PartialEq::eq: self is (slots, free_list), the
\* other arena is held in snap; both are built by from_iter and then have
\* slots vacated by remove.
RECURSIVE from_iter_loop(_, _, _)
from_iter_loop(v, items, i) ==
  IF i > Len(items) THEN v
  ELSE LET r == insert(v, items[i])
       IN from_iter_loop(Arena(r.slots, r.free_list), items, i + 1)

from_iter(items) == from_iter_loop(new, items, 1)

BoundedSeqs(S, n) == UNION {[1..m -> S] : m \in 0..n}

\* every sequence of values up to MaxEqLen, and the two lists of the
\* documented edge case
EqInputs == BoundedSeqs(Values, MaxEqLen) \cup {<<1, 2, 3>>, <<1, 2>>}

Built == Call("from_iter", Keep(new), None)

InitEq ==
  /\ \E items, others \in EqInputs :
       /\ slots = from_iter(items).slots
       /\ free_list = from_iter(items).free_list
       /\ snap = from_iter(others)
  /\ mode = "none"
  /\ log = <<>>
  /\ last = Built
  /\ pre = new
  /\ hist = <<>>
  /\ prior = NoPrior
  /\ fcalls = 0
  /\ fresult = "none"
  /\ wresult = "none"

EqFrame == UNCHANGED <<mode, log, pre, hist, prior, fcalls, fresult, wresult>>

EqRemove(k) ==
  /\ k < Len(slots)
  /\ LET r == remove(Self, k)
     IN slots' = r.slots /\ free_list' = r.free_list
  /\ last' = Built
  /\ UNCHANGED snap
  /\ EqFrame

EqRemoveOther(k) ==
  /\ k < Len(snap.slots)
  /\ LET r == remove(snap, k)
     IN snap' = Arena(r.slots, r.free_list)
  /\ last' = Built
  /\ UNCHANGED <<slots, free_list>>
  /\ EqFrame

EqCompare ==
  /\ last' = Call("eq", Res(slots, free_list, -1, <<eq(Self, snap)>>, FALSE), None)
  /\ UNCHANGED <<slots, free_list, snap>>
  /\ EqFrame

NextEq ==
  \/ \E k \in 0..MaxEqLen : EqRemove(k)
  \/ \E k \in 0..MaxEqLen : EqRemoveOther(k)
  \/ EqCompare

SpecEq == InitEq /\ [][NextEq]_vars

\* ----------------------------------------------------- lookups of a key
\* A third specification for the read-only lookups: the arena is built by
\* from_iter, has slots vacated by remove, and is then asked for a key.
InitRead ==
  /\ \E items \in EqInputs :
       /\ slots = from_iter(items).slots
       /\ free_list = from_iter(items).free_list
  /\ snap = new
  /\ mode = "none"
  /\ log = <<>>
  /\ last = Built
  /\ pre = new
  /\ hist = <<>>
  /\ prior = NoPrior
  /\ fcalls = 0
  /\ fresult = "none"
  /\ wresult = "none"

NextRead ==
  \/ \E k \in 0..MaxEqLen : EqRemove(k)
  \/ \E k \in 0..MaxEqLen : Get(k)
  \/ \E k \in 0..MaxEqLen : GetMut(k)
  \/ \E k \in 0..MaxEqLen : ContainsKey(k)
  \/ \E k \in 0..MaxEqLen : Index(k)

SpecRead == InitRead /\ [][NextRead]_vars

\* ================================================================ claims
InRange(a) == 0..(Len(a.slots) - 1)

Occupied(a) == {k \in InRange(a) : contains_key(a, k)}

RolledBack ==
  \/ last.op = "rollback"
  \/ last.op = "with_transaction" /\ wresult = "Err"

\* C1: insert returns a key whose slot was vacant or did not exist just before
\* the call, and no value present before the call is overwritten.
C1_InsertKeyWasVacant ==
  last.op = "insert" =>
    /\ ~last.panic
    /\ ~contains_key(pre, last.key)
    /\ get(Self, last.key) = last.val
    /\ \A k \in Occupied(pre) : get(Self, k) = get(pre, k)

C1_Witness ==
  /\ last.op = "insert"
  /\ last.key < Len(pre.slots)
  /\ Occupied(pre) # {}

\* C2: an occupied key keeps its value across insert, push_back, and remove
\* or insert_at of any other key.
C2_KeyStability ==
  last.op \in {"insert", "push_back", "remove", "insert_at"} =>
    \A k \in Occupied(pre) :
      (last.op \in {"remove", "insert_at"} => last.key # k) => get(Self, k) = get(pre, k)

C2_Witness ==
  /\ last.op = "remove"
  /\ last.ret # None
  /\ Occupied(Self) # {}
  /\ free_list # <<>>

\* C3: remove never fails; on an out-of-range or vacant key it returns none
\* and leaves the slots and the free list unchanged.
C3_RemoveNeverFails ==
  last.op = "remove" =>
    /\ ~last.panic
    /\ ~contains_key(pre, last.key) => (last.ret = None /\ Self = pre)

\* C4: the free list has no key twice, each of its keys is in range and
\* vacant, and every vacant slot's key is in it.
C4_FreeListInv ==
  /\ \A i, j \in 1..Len(free_list) : i # j => free_list[i] # free_list[j]
  /\ \A i \in 1..Len(free_list) :
       free_list[i] < Len(slots) /\ slots[free_list[i] + 1] = None
  /\ \A k \in InRange(Self) : slots[k + 1] = None => k \in SeqToSet(free_list)

C4_Witness ==
  /\ last.op = "drain_all"
  /\ pre.free_list # <<>>
  /\ Occupied(pre) # {}

\* C5: len() is size minus free-list length without underflow, and equals the
\* number of occupied slots and the number of pairs of iter().
C5_LengthInvariant ==
  /\ Len(free_list) <= Len(slots)
  /\ len(Self) = Cardinality(Occupied(Self))
  /\ len(Self) = Len(iter(Self))

C5_Witness ==
  /\ len(Self) = 1
  /\ Len(free_list) = 1
  /\ last.op = "insert"

\* C6: insert pops the most recently freed key if the free list is non-empty
\* and appends at key = size otherwise; removing k1 then k2 and inserting
\* twice returns k2 then k1.
C6_LifoReuse ==
  /\ last.op = "insert" =>
       IF pre.free_list # <<>>
       THEN /\ last.key = pre.free_list[Len(pre.free_list)]
            /\ free_list = Front(pre.free_list)
            /\ Len(slots) = Len(pre.slots)
       ELSE /\ last.key = Len(pre.slots)
            /\ Len(slots) = Len(pre.slots) + 1
            /\ free_list = <<>>
  /\ Len(hist) = 4 =>
       /\ hist[1].key # hist[2].key
       /\ hist[3].key = hist[2].key
       /\ hist[4].key = hist[1].key

C6_Witness ==
  /\ Len(hist) = 4
  /\ hist[1].op = "remove" /\ hist[2].op = "remove"
  /\ hist[3].op = "insert" /\ hist[4].op = "insert"

\* C7: after a rollback the arena equals its pre-transaction snapshot under
\* eq, and every slot that existed before the transaction holds its
\* pre-transaction content.
C7_RollbackRestoresSlots ==
  RolledBack =>
    /\ ~last.panic
    /\ eq(Self, snap)
    /\ Len(slots) >= Len(snap.slots)
    /\ \A i \in 1..Len(snap.slots) : slots[i] = snap.slots[i]

C7_Witness ==
  /\ last.op = "rollback"
  /\ Len(log) = 2
  /\ log[1].kind = "restore" /\ log[1].val # None
  /\ log[2].kind = "reinsert" /\ log[2].val # None
  /\ log[1].key = log[2].key

C9_WithTransaction ==
  last.op = "with_transaction" =>
    /\ fcalls = 1
    /\ fresult \in {"Ok", "Err"}
    /\ wresult = fresult
    /\ wresult = "Ok" => Self = pre
    /\ wresult = "Err" =>
         \A i \in 1..Len(slots) :
           slots[i] = IF i <= Len(snap.slots) THEN snap.slots[i] ELSE None

C9_Witness ==
  /\ last.op = "with_transaction"
  /\ wresult = "Err"
  /\ Len(log) = 2
  /\ slots # pre.slots

\* C10: insert_at with key >= size fails fatally and changes neither the
\* slots nor the free list; with key < size it does not fail.
C10_InsertAtInvalidKey ==
  last.op = "insert_at" =>
    IF last.key >= Len(pre.slots)
    THEN last.panic /\ Self = pre
    ELSE ~last.panic /\ get(Self, last.key) = last.val

C10_Witness ==
  /\ last.op = "insert_at"
  /\ last.panic
  /\ pre.free_list # <<>>
  /\ Occupied(pre) # {}

Without(s, k) == SelectSeq(s, LAMBDA x : x # k)

\* C11: insert_at on a vacant in-range key returns none, stores the value,
\* takes the key out of the free list and raises len() by one; on an occupied
\* key it returns the old value, stores the new one and leaves len() and the
\* free list unchanged.
C11_InsertAtRoundTrip ==
  (last.op = "insert_at" /\ last.key < Len(pre.slots)) =>
    /\ get(Self, last.key) = last.val
    /\ IF pre.slots[last.key + 1] = None
       THEN /\ last.ret = None
            /\ last.key \notin SeqToSet(free_list)
            /\ free_list = Without(pre.free_list, last.key)
            /\ len(Self) = len(pre) + 1
       ELSE /\ last.ret = pre.slots[last.key + 1]
            /\ len(Self) = len(pre)
            /\ free_list = pre.free_list

\* the round trip: insert_at(k, v) on the vacant k, then insert_at(k, v2)
C11_Witness ==
  /\ prior.call.op = "insert_at" /\ prior.call.ret = None /\ ~prior.call.panic
  /\ last.op = "insert_at" /\ last.key = prior.call.key
  /\ last.ret = prior.call.val
  /\ last.val # last.ret
  /\ free_list # <<>>

SameSlot(x, y) == (x = None /\ y = None) \/ (x # None /\ y # None /\ x[1] = y[1])

\* C12: two arenas are equal iff every pair of slots below the smaller size is
\* both vacant or both holding equal values; longer tails and free lists do
\* not count, so from_iter([1,2,3]) equals from_iter([1,2]).
C12_EqualityPrefix ==
  last.op = "eq" =>
    /\ last.ret =
         <<\A k \in 0..(Min(Len(slots), Len(snap.slots)) - 1) :
               SameSlot(slots[k + 1], snap.slots[k + 1])>>
    /\ (slots = <<Some(1), Some(2), Some(3)>> /\ snap.slots = <<Some(1), Some(2)>>)
         => last.ret = <<TRUE>>

C12_Witness ==
  /\ last.op = "eq"
  /\ slots = <<Some(1), Some(2), Some(3)>>
  /\ snap.slots = <<Some(1), Some(2)>>
  /\ last.ret = <<TRUE>>

Ascending(ks) == \A i, j \in 1..Len(ks) : i < j => ks[i] < ks[j]

Present(a) == {k \in InRange(a) : a.slots[k + 1] # None}

\* C13: drain_all yields exactly the (key, value) pairs of the slots occupied
\* before the call, ascending by key, and leaves size 0, len() 0 and an empty
\* free list.
C13_DrainCompleteness ==
  last.op = "drain_all" =>
    /\ slots = <<>>
    /\ free_list = <<>>
    /\ len(Self) = 0
    /\ SeqToSet(last.ret) = {<<k, pre.slots[k + 1][1]>> : k \in Present(pre)}
    /\ Ascending([i \in 1..Len(last.ret) |-> last.ret[i][1]])

C13_Witness ==
  /\ last.op = "drain_all"
  /\ Len(pre.slots) = 2
  /\ pre.slots[1] = None
  /\ last.ret = <<<<1, pre.slots[2][1]>>>>

\* C14: keys() yields exactly the occupied keys in ascending order, values()
\* their values in the same order, and iter() exactly the pairs (k, v) with
\* get(k) = Some(v), ascending by k.
C14_IterationOrder ==
  LET ks == keys(Self)
      vs == values(Self)
      it == iter(Self)
  IN /\ SeqToSet(ks) = Present(Self)
     /\ Ascending(ks)
     /\ Len(vs) = Len(ks)
     /\ \A i \in 1..Len(ks) : vs[i] = slots[ks[i] + 1][1]
     /\ Len(it) = Cardinality(Present(Self))
     /\ \A i \in 1..Len(it) : it[i] = <<ks[i], slots[ks[i] + 1][1]>>
     /\ SeqToSet(it) = {<<k, slots[k + 1][1]>> : k \in Present(Self)}

\* key 0 was freed and reused after key 1 was handed out
C14_Witness ==
  /\ prior.call.op = "remove" /\ prior.call.key = 0 /\ prior.call.ret # None
  /\ last.op = "insert" /\ last.key = 0
  /\ Len(iter(Self)) = 2

\* C15: get, get_mut and contains_key never fail and report absence exactly
\* when the key is out of range or its slot vacant; container[k] fails
\* fatally in exactly those cases and otherwise returns what get returns.
C15_ErrorRegimes ==
  LET k == last.key
      absent == k >= Len(slots) \/ slots[k + 1] = None
  IN /\ last.op \in {"get", "get_mut"} =>
          /\ ~last.panic
          /\ last.ret = None <=> absent
          /\ ~absent => last.ret = slots[k + 1]
     /\ last.op = "contains_key" => (~last.panic /\ last.ret = <<~absent>>)
     /\ last.op = "index" =>
          /\ last.panic <=> absent
          /\ ~absent => last.ret = get(Self, k)

C15_Witness ==
  /\ last.op = "index"
  /\ last.panic
  /\ last.key < Len(slots)
  /\ Present(Self) # {}

\* C16: push_back appends at key = size even when the free list is not
\* empty, leaves the free list and the existing slots unchanged and raises
\* size and len() by one.
C16_PushBackAppends ==
  last.op = "push_back" =>
    /\ ~last.panic
    /\ last.key = Len(pre.slots)
    /\ Len(slots) = Len(pre.slots) + 1
    /\ SubSeq(slots, 1, Len(pre.slots)) = pre.slots
    /\ slots[Len(slots)] = last.val
    /\ free_list = pre.free_list
    /\ len(Self) = len(pre) + 1

C16_Witness ==
  /\ last.op = "push_back"
  /\ pre.free_list # <<>>

\* C17: no call but drain_all lowers the number of slots; remove vacates
\* without truncating and drain_all resets the size to 0.
C17_SizeMonotonic ==
  /\ last.op # "drain_all" => Len(slots) >= Len(pre.slots)
  /\ last.op = "remove" => Len(slots) = Len(pre.slots)
  /\ last.op = "drain_all" => Len(slots) = 0

C17_Witness ==
  /\ last.op = "remove"
  /\ last.ret # None
  /\ last.key = Len(slots) - 1

\* C18: a rollback does not truncate: the size stays what it was in the
\* transaction, and every slot appended in the transaction is vacant with
\* its key in the free list.
C18_RollbackNeverTruncates ==
  RolledBack =>
    /\ Len(slots) = Len(pre.slots)
    /\ Len(slots) >= Len(snap.slots)
    /\ \A k \in Len(snap.slots)..(Len(slots) - 1) :
         slots[k + 1] = None /\ k \in SeqToSet(free_list)

C18_Witness ==
  /\ RolledBack
  /\ Len(slots) > Len(snap.slots)
  /\ \E i \in 1..Len(log) : log[i].kind = "remove"

RemovedThenPutBack ==
  /\ prior.call.op = "remove" /\ prior.call.ret # None
  /\ last.op = "insert_at"
  /\ last.key = prior.call.key
  /\ last.val = prior.call.ret

\* C19: remove(k) returning Some(v) followed at once by insert_at(k, v)
\* restores the slots and the free list, order included.
C19_RemoveInsertAtInverse ==
  RemovedThenPutBack =>
    /\ ~last.panic
    /\ last.ret = None
    /\ Self = prior.arena

C19_Witness ==
  /\ RemovedThenPutBack
  /\ prior.arena.free_list # <<>>

====
